---- MODULE Spec2Model ----
(***************************************************************************)
(* A model of the datatest-derive procedural macros                        *)
(* (src/datatest-derive/src/lib.rs): the #[files(...)] annotation parser   *)
(* and signature matcher (files_internal), the attribute stripping shared  *)
(* by both macros (handle_common_attrs), the generated describe function   *)
(* of #[data(...)] tests (data_internal) and the generated registration    *)
(* functions (test_registration).                                          *)
(*                                                                         *)
(* Four specifications share the variables below:                          *)
(*   SpecFiles  one expansion of #[files(...)] on one function             *)
(*   SpecAttrs  handle_common_attrs on one attribute list                  *)
(*   SpecData   one call of a generated describe function                  *)
(*   SpecReg    expansion of several tests, then process startup           *)
(***************************************************************************)
EXTENDS Integers, Sequences, FiniteSets, TLC

VARIABLES
    pc,          \* position of the modelled code
    ann,         \* #[files]: the rules as written between the braces
    args_tokens, \* #[files]: the token stream of those rules (`content`)
    sig,         \* func_item.decl.inputs: the declared parameters
    func,        \* the annotated function as written: its attribute list
    attrs,       \* func_item.attrs
    channel,     \* Channel::Stable or Channel::Nightly
    args,        \* FilesTestArgs.args, or the parse error
    info,        \* FuncInfo returned by handle_common_attrs
    idx,         \* enumerate() index of the matching loop (0-based)
    st,          \* the loop's locals: pattern_idx, params, invoke_args, ...
    output,      \* what the expansion returns: emitted items or an error
    hca,         \* handle_common_attrs: its locals test_pos/bench_pos/ignore_pos
    cases,       \* #[data]: what the case source evaluates to
    described,   \* #[data]: the describe function's `result` vector
    tests,       \* registry: per test its channel and emitted registration
    nodes,       \* registry: the static REGISTRATION node of each test
    head,        \* registry: the process-wide registry head
    seen         \* registry: what the harness read from the registry

vars == <<pc, ann, args_tokens, sig, func, attrs, channel, args, info, idx, st,
          output, hca, cases, described, tests, nodes, head, seen>>

filesVars == <<ann, args_tokens, sig, channel, args, idx, st, output>>
attrVars == <<func, attrs, info, hca>>
dataVars == <<cases, described>>
regVars == <<tests, nodes, head, seen>>

(***************************************************************************)
(* Bounds of the model.                                                    *)
(***************************************************************************)
MaxRules == 2
MaxParams == 3
MaxAttrs == 3
MaxCases == 2
MaxTests == 3

(***************************************************************************)
(* Option<T>                                                               *)
(***************************************************************************)
None == [some |-> FALSE]
Some(x) == [some |-> TRUE, v |-> x]

RECURSIVE SeqsUpTo(_, _)
SeqsUpTo(S, n) ==
    IF n = 0 THEN {<<>>}
    ELSE LET shorter == SeqsUpTo(S, n - 1)
         IN  shorter \cup {Append(s, x) : s \in {t \in shorter : Len(t) = n - 1}, x \in S}

(***************************************************************************)
(* The annotation as source text.  A rule is written                       *)
(*     <ident> in "<value>" [if !<path>]    or   <ident> = "<value>" ...   *)
(* and rules are separated by commas.                                      *)
(***************************************************************************)
RuleNames == {"a", "b"}
PredPaths == {"p"}
RuleShapes == [ident : RuleNames, marker : {"in", "eq"}, suffix : {""} \cup PredPaths]

\* The expression strings are opaque to the macro, which only copies them: the
\* i-th rule written carries the string i, so that all of them differ.
Written(shapes) ==
    [i \in 1..Len(shapes) |->
        [ident |-> shapes[i].ident, marker |-> shapes[i].marker,
         value |-> i, suffix |-> shapes[i].suffix]]

Annotations == {Written(s) : s \in SeqsUpTo(RuleShapes, MaxRules)}

Tok(k, v) == [k |-> k, v |-> v]

RuleTokens(r) ==
    <<Tok("ident", r.ident), Tok(r.marker, ""), Tok("str", r.value)>>
    \o (IF r.suffix = "" THEN <<>>
        ELSE <<Tok("if", ""), Tok("bang", ""), Tok("path", r.suffix)>>)

RECURSIVE Render(_)
Render(rs) ==
    IF rs = <<>> THEN <<>>
    ELSE IF Len(rs) = 1 THEN RuleTokens(rs[1])
    ELSE RuleTokens(rs[1]) \o <<Tok("comma", "")>> \o Render(Tail(rs))

(***************************************************************************)
(* TemplateArg::parse, from position p of the token stream.  The result is *)
(* [ok, arg, next]: the parsed TemplateArg and the position after it, or   *)
(* ok = FALSE with the position of the offending token.                    *)
(***************************************************************************)
Peek(toks, p, k) == p <= Len(toks) /\ toks[p].k = k

ParseErr(p) == [ok |-> FALSE, at |-> p]

\* A mutation: the suffix is parsed after either marker.
TemplateArg_parse_any_suffix(toks, p) ==
    IF ~Peek(toks, p, "ident") THEN ParseErr(p)
    ELSE
    LET ident == toks[p].v
        is_pattern == Peek(toks, p + 1, "in")
    IN
    IF ~is_pattern /\ ~Peek(toks, p + 1, "eq") THEN ParseErr(p + 1)
    ELSE IF ~Peek(toks, p + 2, "str") THEN ParseErr(p + 2)
    ELSE
    LET value == toks[p + 2].v
        mk(ignore_fn, next) ==
            [ok |-> TRUE, next |-> next,
             arg |-> [ident |-> ident, span |-> p, is_pattern |-> is_pattern,
                      ignore_fn |-> ignore_fn, value |-> value]]
    IN
    IF Peek(toks, p + 3, "if") THEN
        IF ~Peek(toks, p + 4, "bang") THEN ParseErr(p + 4)
        ELSE IF ~Peek(toks, p + 5, "path") THEN ParseErr(p + 5)
        ELSE mk(Some(toks[p + 5].v), p + 6)
    ELSE mk(None, p + 3)

TemplateArg_parse(toks, p) ==
    IF ~Peek(toks, p, "ident") THEN ParseErr(p)
    ELSE
    LET ident == toks[p].v
        is_pattern == Peek(toks, p + 1, "in")
    IN
    IF ~is_pattern /\ ~Peek(toks, p + 1, "eq") THEN ParseErr(p + 1)
    ELSE IF ~Peek(toks, p + 2, "str") THEN ParseErr(p + 2)
    ELSE
    LET value == toks[p + 2].v
        mk(ignore_fn, next) ==
            [ok |-> TRUE, next |-> next,
             arg |-> [ident |-> ident, span |-> p, is_pattern |-> is_pattern,
                      ignore_fn |-> ignore_fn, value |-> value]]
    IN
    IF is_pattern /\ Peek(toks, p + 3, "if") THEN
        IF ~Peek(toks, p + 4, "bang") THEN ParseErr(p + 4)
        ELSE IF ~Peek(toks, p + 5, "path") THEN ParseErr(p + 5)
        ELSE mk(Some(toks[p + 5].v), p + 6)
    ELSE mk(None, p + 3)

(***************************************************************************)
(* content.parse_terminated(TemplateArg::parse): values separated by       *)
(* commas, a trailing comma allowed.  Returns the parsed values in order.  *)
(***************************************************************************)
RECURSIVE parse_terminated(_, _, _)
parse_terminated(toks, p, acc) ==
    IF p > Len(toks) THEN [ok |-> TRUE, values |-> acc]
    ELSE
    LET r == TemplateArg_parse(toks, p) IN
    IF ~r.ok THEN r
    ELSE IF r.next > Len(toks) THEN [ok |-> TRUE, values |-> Append(acc, r.arg)]
    ELSE IF ~Peek(toks, r.next, "comma") THEN ParseErr(r.next)
    ELSE parse_terminated(toks, r.next + 1, Append(acc, r.arg))

(***************************************************************************)
(* .map(|p| (value.ident.clone(), value)).collect() into a HashMap: a      *)
(* later pair with an equal key replaces the earlier value.                *)
(***************************************************************************)
\* A mutation: the first pair of a key is kept, later ones are dropped.
RECURSIVE Collect_first_wins(_, _)
Collect_first_wins(values, map) ==
    IF values = <<>> THEN map
    ELSE LET v == Head(values)
             keys == DOMAIN map \cup {v.ident}
         IN  Collect_first_wins(Tail(values),
                     [k \in keys |-> IF k \in DOMAIN map THEN map[k] ELSE v])

RECURSIVE Collect(_, _)
Collect(values, map) ==
    IF values = <<>> THEN map
    ELSE LET v == Head(values)
             keys == DOMAIN map \cup {v.ident}
         IN  Collect(Tail(values),
                     [k \in keys |-> IF k = v.ident THEN v ELSE map[k]])

EmptyMap == [k \in {} |-> None]

FilesTestArgs_parse(toks) ==
    LET r == parse_terminated(toks, 1, <<>>) IN
    IF ~r.ok THEN r
    ELSE [ok |-> TRUE, root |-> "tests", args |-> Collect(r.values, EmptyMap)]

(***************************************************************************)
(* handle_common_attrs.  An attribute is modelled by its path; `position`  *)
(* is Iterator::position (0-based, the first match) and `remove` is        *)
(* Vec::remove.                                                            *)
(***************************************************************************)
AttrNames == {"test", "bench", "ignore", "inline", "doc"}

position(as, name) ==
    LET hits == {i \in 1..Len(as) : as[i] = name} IN
    IF hits = {} THEN None
    ELSE Some((CHOOSE i \in hits : \A j \in hits : i <= j) - 1)

remove(as, pos) ==
    [i \in 1..(Len(as) - 1) |-> IF i <= pos THEN as[i] ELSE as[i + 1]]

\* if let Some(pos) = <name>_pos { func.attrs.remove(pos); }
StripFirst(as, name) ==
    LET pos == position(as, name) IN
    IF pos.some THEN remove(as, pos.v) ELSE as

handle_common_attrs(as) ==
    LET a1 == StripFirst(as, "test")
        bench_pos == position(a1, "bench")
        a2 == StripFirst(a1, "bench")
        ignore_pos == position(a2, "ignore")
        a3 == StripFirst(a2, "ignore")
    IN  [attrs |-> a3,
         info |-> [ignore |-> ignore_pos.some, bench |-> bench_pos.some]]

(***************************************************************************)
(* test_registration: the registration glue emitted for a descriptor.      *)
(***************************************************************************)
Channels == {"Stable", "Nightly"}

\* A mutation: the two channels are taken for each other.
test_registration_swapped(ch, desc_ident) ==
    IF ch = "Stable" THEN [k |-> "test_case"]
    ELSE [k |-> "ctor",
          fn |-> <<desc_ident, "__REGISTRATION">>,
          node |-> [descriptor |-> desc_ident, next |-> None]]

test_registration(ch, desc_ident) ==
    IF ch = "Nightly" THEN [k |-> "test_case"]
    ELSE [k |-> "ctor",
          fn |-> <<desc_ident, "__REGISTRATION">>,
          node |-> [descriptor |-> desc_ident, next |-> None]]

(***************************************************************************)
(* files_internal: the signature matcher.  A declared parameter is either  *)
(* a simple binding FnArg::Captured { pat: Pat::Ident, .. } with a name,   *)
(* or any other shape (self, `_`, a destructuring pattern).                *)
(***************************************************************************)
ParamNames == {"a", "b"}
ParamForms == [shape : {"ident"}, name : ParamNames]
                  \cup {[shape |-> "other", name |-> "_"]}

TwoPatterns == "two patterns are not allowed!"
NotDefined == "mapping is not defined for the argument"
Unexpected == "unexpected argument; only simple argument types are allowed"
NoPattern == "must have exactly one pattern mapping defined"
ParseFailure == "parse error"

AtRule(p) == [k |-> "rule", p |-> p]
AtParam(i) == [k |-> "param", p |-> i]
AtToken(p) == [k |-> "token", p |-> p]
AtCallSite == [k |-> "call_site", p |-> 0]

Error_new(at, msg) == [ok |-> FALSE, err |-> [msg |-> msg, at |-> at]]

\* let mut pattern_idx = None; let mut params = Vec::new(); ...
InitLocals ==
    [pattern_idx |-> None, params |-> <<>>, invoke_args |-> <<>>,
     ignore_fn |-> None, ret |-> None]

(***************************************************************************)
(* The pieces of one iteration of the loop over                            *)
(* func_item.decl.inputs.iter().enumerate(): i is the enumerate index      *)
(* (0-based), arg the parameter, `ret` an early return.                    *)
(***************************************************************************)
\* A mutation: the benchmark shift `idx -= 1` is forgotten.
PlanIndex_unshifted(bench, i) == i

\* if info.bench { ... else { idx -= 1; } }
PlanIndex(bench, i) == IF bench THEN i - 1 ELSE i

\* A mutation: entries are inserted at the front instead of pushed.
push_front(v, x) == <<x>> \o v

\* Vec::push
push(v, x) == Append(v, x)

\* args.args.get(&pat_ident.ident)
get(rules, name) == IF name \in DOMAIN rules THEN Some(rules[name]) ELSE None

Return(l, e) == [l EXCEPT !.ret = Some(e)]

\* invoke_args.push(quote!(#pat_ident)); continue;
PassBencher(l, arg) ==
    [l EXCEPT !.invoke_args = push(@, [k |-> "pass", name |-> arg.name])]

\* The body of `if let Some(arg) = args.args.get(..)`.
Bind(l, rule, i, index) ==
    IF rule.is_pattern /\ l.pattern_idx.some THEN
        Return(l, Error_new(AtRule(rule.span), TwoPatterns))
    ELSE
        [l EXCEPT
            !.pattern_idx = IF rule.is_pattern THEN Some(index) ELSE @,
            !.ignore_fn = IF rule.is_pattern THEN rule.ignore_fn ELSE @,
            !.params = push(@, rule.value),
            !.invoke_args = push(@, [k |-> "derive", ty |-> i, index |-> index])]

\* A mutation: a parameter without a rule is skipped instead of rejected.
MatchArg_unmapped_skipped(l, rules, bench, i, arg) ==
    IF arg.shape = "ident" THEN
        IF bench /\ i = 0 THEN PassBencher(l, arg)
        ELSE
            LET found == get(rules, arg.name) IN
            IF found.some THEN Bind(l, found.v, i, PlanIndex(bench, i))
            ELSE l
    ELSE
        Return(l, Error_new(AtParam(i), Unexpected))

MatchArg(l, rules, bench, i, arg) ==
    IF arg.shape = "ident" THEN
        IF bench /\ i = 0 THEN PassBencher(l, arg)
        ELSE
            LET found == get(rules, arg.name) IN
            IF found.some THEN Bind(l, found.v, i, PlanIndex(bench, i))
            ELSE Return(l, Error_new(AtParam(i), NotDefined))
    ELSE
        Return(l, Error_new(AtParam(i), Unexpected))

\* The code after the loop: the pattern check and the emitted items.
Emit(l, root, a, ch) ==
    IF ~l.pattern_idx.some THEN Error_new(AtCallSite, NoPattern)
    ELSE
        [ok |-> TRUE,
         registration |-> test_registration(ch, <<"__TEST_", "f">>),
         desc |-> [name |-> "f",
                   ignore |-> a.info.ignore,
                   root |-> root,
                   params |-> l.params,
                   pattern |-> l.pattern_idx.v,
                   ignorefn |-> l.ignore_fn,
                   testfn |-> IF a.info.bench THEN "BenchFn" ELSE "TestFn"],
         trampoline |-> [bencher_param |-> a.info.bench,
                         invoke_args |-> l.invoke_args],
         func_attrs |-> a.attrs]

RECURSIVE MatchFrom(_, _, _, _, _)
MatchFrom(l, rules, bench, fsig, i) ==
    IF l.ret.some \/ i >= Len(fsig) THEN l
    ELSE MatchFrom(MatchArg(l, rules, bench, i, fsig[i + 1]), rules, bench, fsig, i + 1)

\* The whole expansion as a function of its inputs.
files_internal(toks, fattrs, fsig, ch) ==
    LET parsed == FilesTestArgs_parse(toks) IN
    IF ~parsed.ok THEN Error_new(AtToken(parsed.at), ParseFailure)
    ELSE
    LET a == handle_common_attrs(fattrs)
        l == MatchFrom(InitLocals, parsed.args, a.info.bench, fsig, 0)
    IN  IF l.ret.some THEN l.ret.v ELSE Emit(l, parsed.root, a, ch)

(***************************************************************************)
(* SpecFiles: one expansion of #[files(...)], statement by statement.      *)
(***************************************************************************)
FilesAttrLists == {<<"test">>, <<"ignore", "bench">>}

NoHca == [test_pos |-> None, bench_pos |-> None, ignore_pos |-> None]

InitFiles ==
    /\ pc = "parse_args"
    /\ ann \in Annotations
    /\ args_tokens = Render(ann)
    /\ sig \in SeqsUpTo(ParamForms, MaxParams)
    /\ func \in FilesAttrLists
    /\ attrs = func
    /\ channel \in Channels
    /\ args = None /\ info = None /\ idx = 0
    /\ st = InitLocals /\ output = None /\ hca = NoHca
    /\ cases = <<>> /\ described = None
    /\ tests = <<>> /\ nodes = <<>> /\ head = None /\ seen = None

\* let args: FilesTestArgs = parse_macro_input!(args as FilesTestArgs);
ParseArgs ==
    /\ pc = "parse_args"
    /\ LET parsed == FilesTestArgs_parse(args_tokens) IN
       \/ /\ parsed.ok
          /\ args' = Some(parsed)
          /\ pc' = "attrs"
          /\ UNCHANGED output
       \/ /\ ~parsed.ok
          /\ output' = Some(Error_new(AtToken(parsed.at), ParseFailure))
          /\ pc' = "done"
          /\ UNCHANGED args
    /\ UNCHANGED <<ann, args_tokens, sig, func, attrs, channel, info, idx, st, hca>>
    /\ UNCHANGED <<dataVars, regVars>>

\* let info = handle_common_attrs(&mut func_item);
HandleAttrs ==
    /\ pc = "attrs"
    /\ LET a == handle_common_attrs(attrs) IN
       /\ attrs' = a.attrs
       /\ info' = Some(a.info)
    /\ pc' = "loop"
    /\ UNCHANGED <<ann, args_tokens, sig, func, channel, args, idx, st, output, hca>>
    /\ UNCHANGED <<dataVars, regVars>>

\* for (mut idx, arg) in func_item.decl.inputs.iter().enumerate() { ... }
MatchStep ==
    /\ pc = "loop"
    /\ idx < Len(sig)
    /\ LET l == MatchArg(st, args.v.args, info.v.bench, idx, sig[idx + 1]) IN
       \/ /\ ~l.ret.some
          /\ st' = l
          /\ idx' = idx + 1
          /\ UNCHANGED <<pc, output>>
       \/ /\ l.ret.some
          /\ st' = l
          /\ output' = Some(l.ret.v)
          /\ pc' = "done"
          /\ UNCHANGED idx
    /\ UNCHANGED <<ann, args_tokens, sig, func, attrs, channel, args, info, hca>>
    /\ UNCHANGED <<dataVars, regVars>>

\* if pattern_idx.is_none() { return Error } ... output.into()
Finish ==
    /\ pc = "loop"
    /\ idx = Len(sig)
    /\ output' = Some(Emit(st, args.v.root, [attrs |-> attrs, info |-> info.v], channel))
    /\ pc' = "done"
    /\ UNCHANGED <<ann, args_tokens, sig, func, attrs, channel, args, info, idx, st, hca>>
    /\ UNCHANGED <<dataVars, regVars>>

NextFiles == ParseArgs \/ HandleAttrs \/ MatchStep \/ Finish

SpecFiles == InitFiles /\ [][NextFiles]_vars

(***************************************************************************)
(* Vocabulary of the properties of SpecFiles.  These read the inputs and   *)
(* the parsed RuleSet; none of them uses the matcher.                      *)
(***************************************************************************)
\* The function is benchmark-style: it carries a #[bench] attribute.
IsBench == \E i \in 1..Len(func) : func[i] = "bench"

\* Matching ran to its end or to a diagnostic (the annotation parsed).
Matched == pc = "done" /\ args.some /\ output.some

Rules == args.v.args
Keys == DOMAIN Rules
PatternKeys == {k \in Keys : Rules[k].is_pattern}

\* Declaration indices (0-based) and the ones subject to matching.
DeclIdx == 0..(Len(sig) - 1)
MatchIdx == {i \in DeclIdx : ~(IsBench /\ i = 0)}
Param(i) == sig[i + 1]
Offset == IF IsBench THEN 1 ELSE 0

Simple(i) == Param(i).shape = "ident"
Mapped(i) == Simple(i) /\ Param(i).name \in Keys
BoundToPattern(i) == Mapped(i) /\ Rules[Param(i).name].is_pattern

\* Parameter i is one the scan rejects when it reaches it.
Rejected(i) ==
    \/ ~Simple(i)
    \/ i \in MatchIdx /\ ~Mapped(i)
    \/ i \in MatchIdx /\ BoundToPattern(i)
         /\ \E j \in MatchIdx : j < i /\ BoundToPattern(j)

Out == output.v

\* The plan of a successful match, as the claim C1 describes it.
PlanAsClaimed ==
    /\ Out.ok
    /\ Len(Out.desc.params) = Cardinality(MatchIdx)
    /\ Out.desc.pattern \in 0..(Len(Out.desc.params) - 1)
    /\ \A k \in PatternKeys :
          /\ Out.desc.params[Out.desc.pattern + 1] = Rules[k].value
          /\ Param(Out.desc.pattern + Offset).name = k

(***************************************************************************)
(* C1, as stated: for a RuleSet with exactly one Pattern rule and a        *)
(* signature whose parameters subject to matching all have names that are  *)
(* keys of the RuleSet, matching succeeds, params has one entry per        *)
(* matchable parameter and the pattern index is the position of the        *)
(* Pattern rule's expression.                                              *)
(***************************************************************************)
C1_AsStated ==
    (/\ Matched
     /\ Cardinality(PatternKeys) = 1
     /\ \A i \in MatchIdx : Mapped(i))
    => PlanAsClaimed

(***************************************************************************)
(* C1, amended: the same, for signatures in which every declared parameter *)
(* is a simple binding and exactly one matchable parameter carries the     *)
(* Pattern rule's name.                                                    *)
(***************************************************************************)
C1_PlanOfOnePattern ==
    (/\ Matched
     /\ Cardinality(PatternKeys) = 1
     /\ \A i \in DeclIdx : Simple(i)
     /\ \A i \in MatchIdx : Mapped(i)
     /\ Cardinality({i \in MatchIdx : BoundToPattern(i)}) = 1)
    => PlanAsClaimed

\* A benchmark-style function whose pattern parameter is declared last of three.
C1_Witness ==
    /\ Matched /\ Out.ok /\ IsBench
    /\ Cardinality(PatternKeys) = 1
    /\ Len(sig) = 3
    /\ Out.desc.pattern = 1
    /\ Len(Out.desc.params) = 2

(***************************************************************************)
(* C2, its first assertion: a RuleSet with no Pattern rule or with two or  *)
(* more fails against every signature.  (The diagnostics the claim goes on *)
(* to name, "two patterns are not allowed" at a Pattern rule's token and   *)
(* "must have exactly one pattern mapping" at the call site, are those of  *)
(* this failure.)                                                          *)
(***************************************************************************)
C2_FailsUnlessOnePattern ==
    (Matched /\ Cardinality(PatternKeys) # 1) => ~Out.ok

(***************************************************************************)
(* C3, as stated: a signature with a parameter subject to matching whose   *)
(* name is not a key of the RuleSet fails with "mapping is not defined for *)
(* the argument", wherever that parameter stands.                          *)
(***************************************************************************)
Unmapped == {i \in MatchIdx : Simple(i) /\ ~Mapped(i)}
FirstUnmapped == CHOOSE i \in Unmapped : \A j \in Unmapped : i <= j

C3_AsStated ==
    (Matched /\ Unmapped # {})
    => (~Out.ok /\ Out.err.msg = NotDefined)

(***************************************************************************)
(* C3, amended: such a signature always fails, with the diagnostic of the  *)
(* first parameter, in declaration order, that the scan rejects: it is     *)
(* "mapping is not defined for the argument", at the first unmapped        *)
(* parameter, exactly when no parameter declared before that one is        *)
(* rejected (for its shape, or as a second Pattern binding).               *)
(***************************************************************************)
C3_UnmappedFails ==
    (Matched /\ Unmapped # {})
    => /\ ~Out.ok
       /\ Out.err.msg # NoPattern
       /\ (Out.err = [msg |-> NotDefined, at |-> AtParam(FirstUnmapped)])
            <=> (\A j \in DeclIdx : j < FirstUnmapped => ~Rejected(j))

\* The unmapped parameter is declared last, after two mapped ones.
C3_Witness ==
    /\ Matched /\ Len(sig) = 3
    /\ Unmapped = {2}
    /\ Out.err = [msg |-> NotDefined, at |-> AtParam(2)]
    /\ Len(st.params) = 2

(***************************************************************************)
(* Reorderings of the written rules, and the rule written last for a name. *)
(***************************************************************************)
Perms(n) == {f \in [1..n -> 1..n] : \A i, j \in 1..n : f[i] = f[j] => i = j}
Reorder(a, f) == [i \in 1..Len(a) |-> a[f[i]]]

Content(rule) ==
    [ident |-> rule.ident, is_pattern |-> rule.is_pattern,
     value |-> rule.value, ignore_fn |-> rule.ignore_fn]

\* Two parsed annotations define the same set of rules.
SameRules(p1, p2) ==
    /\ p1.ok /\ p2.ok
    /\ DOMAIN p1.args = DOMAIN p2.args
    /\ \A k \in DOMAIN p1.args : Content(p1.args[k]) = Content(p2.args[k])

WrittenNames == {ann[i].ident : i \in 1..Len(ann)}
LastIndex(k) ==
    CHOOSE i \in 1..Len(ann) :
        ann[i].ident = k /\ \A j \in 1..Len(ann) : ann[j].ident = k => j <= i
LastWritten(k) == ann[LastIndex(k)]

\* What a written rule says, as the fields of a TemplateArg.
Meaning(r) ==
    [ident |-> r.ident, is_pattern |-> (r.marker = "in"), value |-> r.value,
     ignore_fn |-> IF r.suffix = "" THEN None ELSE Some(r.suffix)]

(***************************************************************************)
(* C4: params lists the rule expressions in declared parameter order, not  *)
(* in annotation order: the i-th entry is the expression of the rule named *)
(* by the i-th matchable parameter, and every reordering of the written    *)
(* rules that defines the same set of rules gives, against the same        *)
(* signature, the same outcome with identical params, pattern index and    *)
(* ignore predicate.                                                       *)
(***************************************************************************)
C4_DeclaredOrder ==
    Matched =>
      /\ Out.ok =>
            \A j \in 1..Len(Out.desc.params) :
                Out.desc.params[j] = Rules[Param(j - 1 + Offset).name].value
      /\ \A f \in Perms(Len(ann)) :
            LET toks == Render(Reorder(ann, f))
                other == files_internal(toks, func, sig, channel)
            IN  SameRules(FilesTestArgs_parse(toks), args.v) =>
                  /\ other.ok = Out.ok
                  /\ Out.ok =>
                        /\ other.desc.params = Out.desc.params
                        /\ other.desc.pattern = Out.desc.pattern
                        /\ other.desc.ignorefn = Out.desc.ignorefn

\* Two rules written in the order opposite to the parameters they name.
C4_Witness ==
    /\ Matched /\ Out.ok
    /\ Len(ann) = 2 /\ Len(sig) = 2
    /\ Param(0).name = ann[2].ident /\ Param(1).name = ann[1].ident
    /\ ann[1].ident # ann[2].ident
    /\ Out.desc.params = <<ann[2].value, ann[1].value>>

(***************************************************************************)
(* C5, as stated: the first declared parameter of a benchmark-style        *)
(* function is excluded from matching whatever the RuleSet and whatever    *)
(* its shape; it never causes a matching failure, and on success the       *)
(* parameter at declaration index i >= 1 is bound at position i - 1 and    *)
(* reads paths_arg[i - 1].                                                 *)
(***************************************************************************)
C5_AsStated ==
    (Matched /\ IsBench /\ sig # <<>>)
    => /\ ~(~Out.ok /\ Out.err.at = AtParam(0))
       /\ Out.ok =>
             \A i \in MatchIdx :
                /\ Out.desc.params[i] = Rules[Param(i).name].value
                /\ Out.trampoline.invoke_args[i + 1]
                       = [k |-> "derive", ty |-> i, index |-> i - 1]

(***************************************************************************)
(* C9: an `if !predicate` suffix written after a Template rule makes the   *)
(* annotation fail to parse; no parsed Template rule carries an ignore     *)
(* predicate; and on success the descriptor's ignore predicate is the one  *)
(* written after the Pattern rule bound to a parameter, absent when that   *)
(* rule was written without the suffix.                                    *)
(***************************************************************************)
Grammatical(r) == ~(r.marker = "eq" /\ r.suffix # "")

C9_IgnoreOnlyOnPattern ==
    /\ (pc # "parse_args" /\ \E i \in 1..Len(ann) : ~Grammatical(ann[i]))
          => /\ ~args.some
             /\ output.some /\ ~Out.ok /\ Out.err.msg = ParseFailure
    /\ args.some =>
          \A k \in Keys : ~Rules[k].is_pattern => Rules[k].ignore_fn = None
    /\ (Matched /\ Out.ok) =>
          LET w == LastWritten(Param(Out.desc.pattern + Offset).name) IN
          /\ w.marker = "in"
          /\ Out.desc.ignorefn = IF w.suffix = "" THEN None ELSE Some(w.suffix)

\* A Pattern rule written with a predicate is bound, beside a Template rule.
C9_Witness ==
    /\ Matched /\ Out.ok
    /\ Out.desc.ignorefn = Some("p")
    /\ \E k \in Keys : ~Rules[k].is_pattern

(***************************************************************************)
(* C10: when a name is listed twice or more, parsing reports no error for  *)
(* it (the annotation parses exactly when each rule alone is grammatical); *)
(* the RuleSet holds, for each name, the rule written last; and the        *)
(* expansion's outcome is the one of the annotation that lists only those  *)
(* last rules (a diagnostic at a rule names the same rule).                *)
(***************************************************************************)
Duplicated ==
    \E i, j \in 1..Len(ann) : i < j /\ ann[i].ident = ann[j].ident

RECURSIVE LastOnly(_)
LastOnly(a) ==
    IF a = <<>> THEN <<>>
    ELSE IF \E j \in 2..Len(a) : a[j].ident = a[1].ident THEN LastOnly(Tail(a))
    ELSE <<a[1]>> \o LastOnly(Tail(a))

\* An outcome, with a diagnostic's rule token replaced by the rule it heads.
View(out, toks) ==
    IF out.ok \/ out.err.at.k # "rule" THEN out
    ELSE [ok |-> FALSE, msg |-> out.err.msg,
          rule |-> <<toks[out.err.at.p].v, toks[out.err.at.p + 1].k,
                     toks[out.err.at.p + 2].v>>]

C10_LastRuleWins ==
    (Duplicated /\ pc # "parse_args") =>
      /\ args.some <=> \A i \in 1..Len(ann) : Grammatical(ann[i])
      /\ args.some =>
            /\ Keys = WrittenNames
            /\ \A k \in Keys : Content(Rules[k]) = Meaning(LastWritten(k))
            /\ \A k \in Keys : args_tokens[Rules[k].span].v = k
      /\ Matched =>
            LET toks == Render(LastOnly(ann)) IN
            View(Out, args_tokens)
              = View(files_internal(toks, func, sig, channel), toks)

\* A Pattern rule with a predicate is overwritten by a Template rule of the
\* same name, and the match then fails for want of a pattern.
C10_Witness ==
    /\ Matched /\ Duplicated /\ Len(ann) = 2
    /\ ann[1].marker = "in" /\ ann[1].suffix = "p" /\ ann[2].marker = "eq"
    /\ sig # <<>>
    /\ Out = Error_new(AtCallSite, NoPattern)

\* The statement-by-statement run computes files_internal of its inputs.
StepwiseAgrees ==
    (pc = "done" /\ output.some) =>
        Out = files_internal(args_tokens, func, sig, channel)

(***************************************************************************)
(* SpecAttrs: handle_common_attrs, statement by statement.                 *)
(***************************************************************************)
AttrLists == SeqsUpTo(AttrNames, MaxAttrs)

InitAttrs ==
    /\ pc = "strip_test"
    /\ func \in AttrLists
    /\ attrs = func
    /\ info = None /\ hca = NoHca
    /\ ann = <<>> /\ args_tokens = <<>> /\ sig = <<>>
    /\ channel = "Stable" /\ args = None /\ idx = 0
    /\ st = InitLocals /\ output = None
    /\ cases = <<>> /\ described = None
    /\ tests = <<>> /\ nodes = <<>> /\ head = None /\ seen = None

\* let test_pos = ...position(is_ident("test")); if let Some(pos) ... remove(pos)
StripTest ==
    /\ pc = "strip_test"
    /\ hca' = [hca EXCEPT !.test_pos = position(attrs, "test")]
    /\ attrs' = StripFirst(attrs, "test")
    /\ pc' = "strip_bench"
    /\ UNCHANGED <<func, info, filesVars, dataVars, regVars>>

StripBench ==
    /\ pc = "strip_bench"
    /\ hca' = [hca EXCEPT !.bench_pos = position(attrs, "bench")]
    /\ attrs' = StripFirst(attrs, "bench")
    /\ pc' = "strip_ignore"
    /\ UNCHANGED <<func, info, filesVars, dataVars, regVars>>

StripIgnore ==
    /\ pc = "strip_ignore"
    /\ hca' = [hca EXCEPT !.ignore_pos = position(attrs, "ignore")]
    /\ attrs' = StripFirst(attrs, "ignore")
    /\ pc' = "return_info"
    /\ UNCHANGED <<func, info, filesVars, dataVars, regVars>>

\* FuncInfo { ignore: ignore_pos.is_some(), bench: bench_pos.is_some() }
ReturnInfo ==
    /\ pc = "return_info"
    /\ info' = Some([ignore |-> hca.ignore_pos.some, bench |-> hca.bench_pos.some])
    /\ pc' = "done"
    /\ UNCHANGED <<func, attrs, hca, filesVars, dataVars, regVars>>

NextAttrs == StripTest \/ StripBench \/ StripIgnore \/ ReturnInfo

SpecAttrs == InitAttrs /\ [][NextAttrs]_vars

(***************************************************************************)
(* C8, as stated: for any attribute list, the function left by             *)
(* handle_common_attrs carries no test, bench or ignore attribute, keeps   *)
(* every other attribute in its original relative order, and the returned  *)
(* flags are true exactly when the marker was present.                     *)
(***************************************************************************)
Markers == {"test", "bench", "ignore"}
IsOther(a) == a \notin Markers
Has(as, name) == \E i \in 1..Len(as) : as[i] = name

C8_AsStated ==
    pc = "done" =>
      /\ \A i \in 1..Len(attrs) : attrs[i] \notin Markers
      /\ SelectSeq(attrs, IsOther) = SelectSeq(func, IsOther)
      /\ info.v.ignore = Has(func, "ignore")
      /\ info.v.bench = Has(func, "bench")

(***************************************************************************)
(* data_internal: the describe function generated for a #[data] test, and  *)
(* SpecData, one call of it.  The case source (a yaml file or an           *)
(* expression) evaluates to a vector of DataTestCaseDesc { case, name,     *)
(* location }.                                                             *)
(***************************************************************************)
CaseValues == {"c1", "c2"}
CaseNames == {"n1", "n2"}
CaseLocations == {"l1", "l2"}
CaseDescs == [case : CaseValues, name : CaseNames, location : CaseLocations]

\* #case_ctor
case_ctor(bench, case) ==
    IF bench THEN [k |-> "BenchFn", trampoline |-> <<"__TEST_TRAMPOLINE_", "f">>,
                   case |-> case]
    ELSE [k |-> "TestFn", trampoline |-> <<"__TEST_TRAMPOLINE_", "f">>,
          case |-> case]

\* The closure given to .map()
MapCase(bench, input) ==
    [case |-> case_ctor(bench, input.case), name |-> input.name,
     location |-> input.location]

DataAttrLists == {<<"test">>, <<"bench">>}

InitData ==
    /\ pc = "expand"
    /\ func \in DataAttrLists
    /\ attrs = func
    /\ cases \in SeqsUpTo(CaseDescs, MaxCases)
    /\ described = None
    /\ info = None /\ hca = NoHca
    /\ ann = <<>> /\ args_tokens = <<>> /\ sig = <<>>
    /\ channel = "Stable" /\ args = None /\ idx = 0
    /\ st = InitLocals /\ output = None
    /\ tests = <<>> /\ nodes = <<>> /\ head = None /\ seen = None

\* data_internal up to the emitted items: info decides the case constructor.
ExpandData ==
    /\ pc = "expand"
    /\ LET a == handle_common_attrs(attrs) IN
       /\ attrs' = a.attrs
       /\ info' = Some(a.info)
    /\ pc' = "map"
    /\ UNCHANGED <<func, hca, cases, described, filesVars, regVars>>

\* #cases.into_iter().map(|input| ...).collect::<Vec<_>>(), one element a step
MapStep ==
    /\ pc = "map"
    /\ idx < Len(cases)
    /\ described' = Some(Append(IF described.some THEN described.v ELSE <<>>,
                                MapCase(info.v.bench, cases[idx + 1])))
    /\ idx' = idx + 1
    /\ UNCHANGED <<pc, cases, attrVars, ann, args_tokens, sig, channel,
                   args, st, output, regVars>>

CollectDone ==
    /\ pc = "map"
    /\ idx = Len(cases)
    /\ described' = IF described.some THEN described ELSE Some(<<>>)
    /\ pc' = "assert"
    /\ UNCHANGED <<cases, attrVars, filesVars, regVars>>

\* A mutation: the assertion is missing.
AssertNonEmpty_missing ==
    /\ pc = "assert"
    /\ output' = Some([panic |-> FALSE, result |-> described.v])
    /\ pc' = "returned"
    /\ UNCHANGED <<cases, described, attrVars, ann, args_tokens, sig,
                   channel, args, idx, st, regVars>>

\* assert!(!result.is_empty(), "no test cases were found!"); result
AssertNonEmpty ==
    /\ pc = "assert"
    /\ \/ /\ described.v = <<>>
          /\ output' = Some([panic |-> TRUE, msg |-> "no test cases were found!"])
          /\ pc' = "panicked"
       \/ /\ described.v # <<>>
          /\ output' = Some([panic |-> FALSE, result |-> described.v])
          /\ pc' = "returned"
    /\ UNCHANGED <<cases, described, attrVars, ann, args_tokens, sig,
                   channel, args, idx, st, regVars>>

NextData == ExpandData \/ MapStep \/ CollectDone \/ AssertNonEmpty

SpecData == InitData /\ [][NextData]_vars

(***************************************************************************)
(* C7: the describe function called on a source of zero cases panics with  *)
(* the empty-case failure and never returns an empty vector; on n >= 1     *)
(* cases it returns n wrapped cases in source order, each with its name    *)
(* and location unchanged.                                                 *)
(***************************************************************************)
C7_DescribeFn ==
    /\ (pc \in {"returned", "panicked"} /\ cases = <<>>) =>
          /\ pc = "panicked"
          /\ output.v = [panic |-> TRUE, msg |-> "no test cases were found!"]
    /\ (pc \in {"returned", "panicked"} /\ cases # <<>>) =>
          /\ pc = "returned"
          /\ ~output.v.panic
          /\ Len(output.v.result) = Len(cases)
          /\ \A i \in 1..Len(cases) :
                /\ output.v.result[i].name = cases[i].name
                /\ output.v.result[i].location = cases[i].location
                /\ output.v.result[i].case.case = cases[i].case
                /\ output.v.result[i].case.k
                       = IF Has(func, "bench") THEN "BenchFn" ELSE "TestFn"

\* Two different cases come back, in order.
C7_Witness ==
    /\ pc = "returned"
    /\ Len(cases) = 2 /\ cases[1].name # cases[2].name
    /\ output.v.result[1].name = cases[1].name
    /\ output.v.result[2].name = cases[2].name

(***************************************************************************)
(* SpecReg: several annotated tests are expanded, each under one channel;  *)
(* the program then starts, the startup hook runs every generated          *)
(* registration function once, one at a time, and the harness reads the    *)
(* registry.                                                               *)
(***************************************************************************)
desc_ident(t) == <<"__TEST_", t>>

\* What the macro emits for test t: #registration, before static #desc_ident.
Registration(ch, t) == test_registration(ch, desc_ident(t))

(***************************************************************************)
(* datatest::__internal::register(&mut REGISTRATION): the node's next      *)
(* takes the old head and the head becomes the node.                       *)
(***************************************************************************)
register(t, ns, h) ==
    [nodes |-> [ns EXCEPT ![t] = Some([@.v EXCEPT !.next = h])],
     head |-> Some(t)]

\* The descriptors reachable from h, following next at most `fuel` times.
RECURSIVE Walk(_, _, _)
Walk(h, ns, fuel) ==
    IF ~h.some \/ fuel = 0 THEN <<>>
    ELSE <<ns[h.v].v.descriptor>> \o Walk(ns[h.v].v.next, ns, fuel - 1)

InitReg ==
    /\ pc = "compile"
    /\ \E n \in 1..MaxTests :
          /\ tests \in [1..n -> [channel : Channels, registration : {None},
                                 ran : {FALSE}]]
          /\ nodes = [t \in 1..n |-> None]
    /\ head = None /\ seen = None
    /\ func = <<>> /\ attrs = <<>> /\ info = None /\ hca = NoHca
    /\ ann = <<>> /\ args_tokens = <<>> /\ sig = <<>>
    /\ channel = "Stable" /\ args = None /\ idx = 0
    /\ st = InitLocals /\ output = None
    /\ cases = <<>> /\ described = None

\* let registration = test_registration(channel, &desc_ident);
Expand(t) ==
    /\ pc = "compile"
    /\ ~tests[t].registration.some
    /\ tests' = [tests EXCEPT ![t].registration =
                     Some(Registration(tests[t].channel, t))]
    /\ UNCHANGED <<pc, nodes, head, seen, attrVars, filesVars, dataVars>>

\* The program is loaded: every emitted static REGISTRATION holds its
\* initializer.
Load ==
    /\ pc = "compile"
    /\ \A t \in DOMAIN tests : tests[t].registration.some
    /\ nodes' = [t \in DOMAIN tests |->
                    IF tests[t].registration.v.k = "ctor"
                    THEN Some(tests[t].registration.v.node) ELSE None]
    /\ pc' = "startup"
    /\ UNCHANGED <<tests, head, seen, attrVars, filesVars, dataVars>>

\* #[ctor] fn #registration_fn() { register(unsafe { &mut REGISTRATION }) }
RunCtor(t) ==
    /\ pc = "startup"
    /\ tests[t].registration.v.k = "ctor"
    /\ ~tests[t].ran
    /\ LET r == register(t, nodes, head) IN
       /\ nodes' = r.nodes
       /\ head' = r.head
    /\ tests' = [tests EXCEPT ![t].ran = TRUE]
    /\ UNCHANGED <<pc, seen, attrVars, filesVars, dataVars>>

\* Every startup function has run: main begins.
EnterMain ==
    /\ pc = "startup"
    /\ \A t \in DOMAIN tests : tests[t].registration.v.k = "ctor" => tests[t].ran
    /\ pc' = "main"
    /\ UNCHANGED <<tests, nodes, head, seen, attrVars, filesVars, dataVars>>

\* The harness walks the registry.
HarnessRead ==
    /\ pc = "main"
    /\ seen = None
    /\ seen' = Some(Walk(head, nodes, Len(nodes)))
    /\ UNCHANGED <<pc, tests, nodes, head, attrVars, filesVars, dataVars>>

NextReg ==
    \/ \E t \in DOMAIN tests : Expand(t)
    \/ Load
    \/ \E t \in DOMAIN tests : RunCtor(t)
    \/ EnterMain
    \/ HarnessRead

SpecReg == InitReg /\ [][NextReg]_vars

(***************************************************************************)
(* C6: under the stable strategy each generated registration function      *)
(* builds one node, for its own descriptor and with an empty next, and     *)
(* registers it once; under the nightly strategy nothing but the           *)
(* #[test_case] marker is emitted.  While the startup functions run, the   *)
(* registry holds exactly the descriptors of those that ran, each once;    *)
(* when main begins it holds one node per stable test; and from then on    *)
(* neither the head nor a node is written.                                 *)
(***************************************************************************)
Ran == {t \in DOMAIN tests : tests[t].ran}
StableTests == {t \in DOMAIN tests : tests[t].channel = "Stable"}
Registry == Walk(head, nodes, Len(nodes))

C6_Emitted ==
    \A t \in DOMAIN tests :
        tests[t].registration.some =>
            LET reg == tests[t].registration.v IN
            IF t \in StableTests
            THEN reg = [k |-> "ctor", fn |-> <<desc_ident(t), "__REGISTRATION">>,
                        node |-> [descriptor |-> desc_ident(t), next |-> None]]
            ELSE reg = [k |-> "test_case"]

C6_Populated ==
    pc \in {"startup", "main"} =>
      /\ {t \in DOMAIN tests : nodes[t].some} = StableTests
      /\ Ran \subseteq StableTests
      /\ {Registry[i] : i \in 1..Len(Registry)} = {desc_ident(t) : t \in Ran}
      /\ Len(Registry) = Cardinality(Ran)
      /\ pc = "main" => Ran = StableTests
      /\ seen.some => seen.v = Registry

C6_Registry ==
    /\ [](C6_Emitted /\ C6_Populated)
    /\ [][pc = "main" => (head' = head /\ nodes' = nodes /\ pc' = "main")]_vars

\* Three stable tests registered; the harness has read all three.
C6_Witness ==
    /\ pc = "main"
    /\ Len(tests) = 3 /\ StableTests = {1, 2, 3}
    /\ seen.some /\ Len(seen.v) = 3
    /\ Cardinality({seen.v[i] : i \in 1..3}) = 3

====
